---- MODULE Spec2Model ----
(***************************************************************************)
(* Model of src/main.py: QuizSimulator, GradeDistribution and QuizAnalyzer. *)
(* One QuizAnalyzer object graph (a QuizSimulator, a GradeDistribution and  *)
(* the participant count) is driven through run_simulation,                 *)
(* plot_distribution, analyze and calculate_distribution.  The loop of      *)
(* run_simulation and the generator of simulate_participant_score are       *)
(* stepped one iteration at a time, each draw of random.randint being an    *)
(* input of the step.  QuizAnalyzer.__init__ always builds the default quiz  *)
(* of 20 questions and 4 options; another quiz is reached by assigning a     *)
(* QuizSimulator(nq, no, ks) to analyzer.quiz_simulator after construction.  *)
(* The random source is unseeded until random.seed is called; a second       *)
(* analyzer may then be built alike and run on the same stream.              *)
(***************************************************************************)
EXTENDS Integers, Sequences, FiniteSets, TLC

\* ------------------------------------------------------------- bounds
MaxQuestions == 2
MaxOptions == 4
MaxShift == 2
MaxParticipants == 1
MaxRuns == 2
MaxDraws == 5
TapeLen == 3

\* ------------------------------------------------- program constants
\* Defaults of QuizSimulator.__init__, which QuizAnalyzer.__init__ relies on.
DefaultNumQuestions == 20
DefaultNumOptions == 4
\* The literal a draw is compared with in simulate_participant_score.
CorrectOption == 4

VARIABLES
    num_questions,    \* QuizSimulator.num_questions
    num_options,      \* QuizSimulator.num_options
    knowledge_shift,  \* QuizSimulator.knowledge_shift (QuizAnalyzer's copy only labels the plot)
    num_participants, \* QuizAnalyzer.num_participants
    scores,           \* GradeDistribution.scores (a list)
    pc,               \* position of the caller: "idle", "loop", "sim", "plot", "raised"
    caller,           \* entry point in progress or last used: "none", "run_simulation", "analyze", "plot_distribution"
    i,                \* iterations of the loop of run_simulation completed in this call
    q,                \* iterations of the generator of simulate_participant_score completed
    correct_answers,  \* running sum of the generator
    draw,             \* value last returned by random.randint (0: none yet)
    consumed,         \* number of values taken from the random source by this analyzer
    runs,             \* completed calls of run_simulation on this analyzer
    exception,        \* "none" or the exception that ended the call
    distribution,     \* mapping last returned by calculate_distribution
    seeded,           \* whether the random source replays a fixed stream (random.seed)
    rng,              \* the stream of a seeded source
    pos,              \* next position of the stream
    analyzer,         \* which analyzer is live: 1, then 2 once a second one is constructed
    first             \* distribution of analyzer 1 after its run, kept for comparison

vars == <<num_questions, num_options, knowledge_shift, num_participants, scores,
          pc, caller, i, q, correct_answers, draw, consumed, runs, exception,
          distribution, seeded, rng, pos, analyzer, first>>

config == <<num_questions, num_options, knowledge_shift, num_participants>>
source == <<seeded, rng, analyzer, first>>

\* ------------------------------------------------------ pure helpers
\* Python's min of two integers.
Min(a, b) == IF a <= b THEN a ELSE b

\* The test of one draw inside the generator expression.
IsCorrect(d) == d = CorrectOption

\* sum(randint(...) == 4 for _ in range(n)) over a given sequence of draws.
RECURSIVE CountCorrect(_)
CountCorrect(draws) ==
    IF draws = <<>> THEN 0
    ELSE CountCorrect(SubSeq(draws, 1, Len(draws) - 1))
         + (IF IsCorrect(draws[Len(draws)]) THEN 1 ELSE 0)

\* The return expression without its clamp.
AdjustedScoreUnclamped(nq, correct, shift) == correct + shift

\* The return expression with max written for min.
AdjustedScoreMax(nq, correct, shift) ==
    IF nq >= correct + shift THEN nq ELSE correct + shift

\* The return expression of simulate_participant_score.
AdjustedScore(nq, correct, shift) == Min(nq, correct + shift)

\* simulate_participant_score as a function of the draws it consumes.
simulate_participant_score(nq, shift, draws) ==
    AdjustedScore(nq, CountCorrect(draws), shift)

\* GradeDistribution.__init__: a new, empty list.
GradeDistribution_init == <<>>

\* An aggregator that keeps a score only the first time it sees it.
add_score_if_absent(list, score) ==
    IF \E j \in 1..Len(list) : list[j] = score THEN list ELSE Append(list, score)

\* GradeDistribution.add_score: list.append.
add_score(list, score) == Append(list, score)

\* collections.Counter over a list: one pass, incrementing per element.
RECURSIVE Counter(_)
Counter(list) ==
    IF list = <<>> THEN <<>>
    ELSE LET c == Counter(SubSeq(list, 1, Len(list) - 1))
             x == list[Len(list)]
         IN  IF x \in DOMAIN c THEN [c EXCEPT ![x] = @ + 1] ELSE c @@ (x :> 1)

\* A mapping that records which scores occur, not how often.
calculate_presence(list) == [k \in {list[j] : j \in 1..Len(list)} |-> 1]

\* GradeDistribution.calculate_distribution.
calculate_distribution(list) == Counter(list)

\* sorted(distribution.items()): the (score, frequency) pairs by ascending score.
RECURSIVE SortedItems(_, _)
SortedItems(d, keys) ==
    IF keys = {} THEN <<>>
    ELSE LET k == CHOOSE x \in keys : \A y \in keys : x <= y
         IN  <<(<<k, d[k]>>)>> \o SortedItems(d, keys \ {k})

\* zip(*items) for a list of pairs: no tuple for an empty list, else two.
ZipStar(items) ==
    IF Len(items) = 0 THEN <<>>
    ELSE << [j \in 1..Len(items) |-> items[j][1]],
            [j \in 1..Len(items) |-> items[j][2]] >>

\* The unpacking "scores, frequencies = ..." succeeds on exactly two values.
UnpackTwoOk(t) == Len(t) = 2

\* A source that ignores its seed: any value of the range.
RandIntUnseeded(a, b) == a..b

\* The values random.randint(a, b) can return on a non-empty range: any value of
\* the range, and for a seeded source the next value of its stream.
RandInt(a, b) == IF seeded THEN {rng[pos]} ELSE a..b

\* random.randint(1, n) raises ValueError when the range is empty.
RandIntRaises(a, b) == b < a

\* The draws one call of run_simulation takes when no draw raises.
DrawsOfRun ==
    (IF num_participants > 0 THEN num_participants ELSE 0)
    * (IF num_questions > 0 THEN num_questions ELSE 0)

\* The calls of run_simulation explored: the first run of an analyzer as
\* constructed, and otherwise MaxRuns calls within MaxDraws draws in all; a
\* seeded stream is run from its start.
MayRun ==
    /\ runs < MaxRuns
    /\ \/ runs = 0 /\ num_questions = DefaultNumQuestions
       \/ consumed + DrawsOfRun <= MaxDraws
    /\ seeded => pos = 1

\* A loop that runs once more than range(n).
LoopHasNextInclusive(done, n) == done <= n

\* range(n) of the loop of run_simulation still has an element after i iterations.
LoopHasNext(done, n) == done < n

\* ------------------------------------------------------------ states
\* Arguments (num_participants, knowledge_shift) of QuizAnalyzer.__init__: the
\* bounded ones, and 2, 5 and 10 participants with a shift of 20.
AnalyzerArgs ==
    { <<np, ks>> : np \in -1..MaxParticipants, ks \in -1..MaxShift }
    \cup { <<np, 20>> : np \in {2, 5, 10} }

\* Arguments (num_questions, num_options, knowledge_shift) of QuizSimulator.__init__.
SimulatorArgs ==
    { <<nq, no, ks>> : nq \in -1..MaxQuestions, no \in 0..MaxOptions,
                       ks \in -1..MaxShift }

\* QuizAnalyzer.__init__(np, ks): QuizSimulator(knowledge_shift=ks) with its
\* default questions and options, and a new GradeDistribution.
Constructed(np, ks) ==
    /\ num_questions = DefaultNumQuestions
    /\ num_options = DefaultNumOptions
    /\ knowledge_shift = ks
    /\ num_participants = np
    /\ scores = GradeDistribution_init
    /\ pc = "idle"
    /\ caller = "none"
    /\ i = 0
    /\ q = 0
    /\ correct_answers = 0
    /\ draw = 0
    /\ consumed = 0
    /\ runs = 0
    /\ exception = "none"
    /\ distribution = <<>>
    /\ pos = 1
    /\ analyzer = 1
    /\ first = <<>>

Init ==
    /\ \E a \in AnalyzerArgs : Constructed(a[1], a[2])
    /\ seeded = FALSE
    /\ rng = <<>>

\* ----------------------------------------------------------- actions
\* analyzer.quiz_simulator = QuizSimulator(nq, no, ks), right after construction.
ReplaceSimulator ==
    /\ pc = "idle"
    /\ caller = "none"
    /\ runs = 0
    /\ ~seeded
    /\ num_questions = DefaultNumQuestions
    /\ \E c \in SimulatorArgs :
         /\ num_questions' = c[1]
         /\ num_options' = c[2]
         /\ knowledge_shift' = c[3]
    /\ UNCHANGED <<num_participants, source, scores, pc, caller, i, q,
                   correct_answers, draw, consumed, runs, exception,
                   distribution, pos>>

\* random.seed(s) before the first run: the stream of the draws that run takes.
Seed ==
    /\ pc = "idle"
    /\ caller = "none"
    /\ runs = 0
    /\ analyzer = 1
    /\ ~seeded
    /\ DrawsOfRun <= TapeLen
    /\ seeded' = TRUE
    /\ rng' \in [1..DrawsOfRun -> 1..num_options]
    /\ pos' = 1
    /\ UNCHANGED <<config, analyzer, first, scores, pc, caller, i, q,
                   correct_answers, draw, consumed, runs, exception,
                   distribution>>

\* QuizAnalyzer.run_simulation is called.
RunSimulation ==
    /\ pc = "idle"
    /\ MayRun
    /\ pc' = "loop"
    /\ caller' = "run_simulation"
    /\ i' = 0
    /\ UNCHANGED <<config, source, scores, q, correct_answers, draw, consumed,
                   runs, exception, distribution, pos>>

\* QuizAnalyzer.analyze is called: run_simulation, then plot_distribution.
Analyze ==
    /\ pc = "idle"
    /\ MayRun
    /\ pc' = "loop"
    /\ caller' = "analyze"
    /\ i' = 0
    /\ UNCHANGED <<config, source, scores, q, correct_answers, draw, consumed,
                   runs, exception, distribution, pos>>

\* for _ in range(self.num_participants): the next participant starts.
LoopNext ==
    /\ pc = "loop"
    /\ LoopHasNext(i, num_participants)
    /\ pc' = "sim"
    /\ q' = 0
    /\ correct_answers' = 0
    /\ UNCHANGED <<config, source, scores, caller, i, draw, consumed, runs,
                   exception, distribution, pos>>

\* The loop of run_simulation is exhausted: run_simulation returns.
LoopExit ==
    /\ pc = "loop"
    /\ ~LoopHasNext(i, num_participants)
    /\ runs' = runs + 1
    /\ pc' = IF caller = "analyze" THEN "plot" ELSE "idle"
    /\ UNCHANGED <<config, source, scores, caller, i, q, correct_answers, draw,
                   consumed, exception, distribution, pos>>

\* One iteration of the generator: a draw, compared with the literal 4.
Draw ==
    /\ pc = "sim"
    /\ q < num_questions
    /\ ~RandIntRaises(1, num_options)
    /\ \E d \in RandInt(1, num_options) :
         /\ draw' = d
         /\ correct_answers' = correct_answers + (IF IsCorrect(d) THEN 1 ELSE 0)
    /\ q' = q + 1
    /\ consumed' = consumed + 1
    /\ pos' = IF seeded THEN pos + 1 ELSE pos
    /\ UNCHANGED <<config, source, scores, pc, caller, i, runs, exception,
                   distribution>>

\* random.randint(1, num_options) raises on an empty range; nothing catches it.
DrawRaises ==
    /\ pc = "sim"
    /\ q < num_questions
    /\ RandIntRaises(1, num_options)
    /\ pc' = "raised"
    /\ exception' = "ValueError"
    /\ UNCHANGED <<config, source, scores, caller, i, q, correct_answers, draw,
                   consumed, runs, distribution, pos>>

\* simulate_participant_score returns and run_simulation adds the score.
ReturnScore ==
    /\ pc = "sim"
    /\ q >= num_questions
    /\ scores' = add_score(scores, AdjustedScore(num_questions, correct_answers,
                                                 knowledge_shift))
    /\ i' = i + 1
    /\ draw' = 0
    /\ pc' = "loop"
    /\ UNCHANGED <<config, source, caller, q, correct_answers, consumed,
                   runs, exception, distribution, pos>>

\* QuizAnalyzer.plot_distribution, from analyze or called directly; the
\* plotting calls themselves are outside the model.
PlotDistribution ==
    /\ pc \in {"plot", "idle"}
    /\ distribution' = calculate_distribution(scores)
    /\ caller' = IF pc = "plot" THEN caller ELSE "plot_distribution"
    /\ IF UnpackTwoOk(ZipStar(SortedItems(distribution', DOMAIN distribution')))
       THEN pc' = "idle" /\ exception' = exception
       ELSE pc' = "raised" /\ exception' = "ValueError"
    /\ UNCHANGED <<config, source, scores, i, q, correct_answers, draw, consumed,
                   runs, pos>>

\* GradeDistribution.calculate_distribution called on the analyzer's aggregator.
CalculateDistribution ==
    /\ pc = "idle"
    /\ distribution' = calculate_distribution(scores)
    /\ UNCHANGED <<config, source, scores, pc, caller, i, q, correct_answers,
                   draw, consumed, runs, exception, pos>>

\* After the first analyzer's run on a seeded stream: random.seed with the same
\* seed, and a second QuizAnalyzer built like the first (same arguments, same
\* simulator arguments).
Reconstruct ==
    /\ seeded
    /\ analyzer = 1
    /\ pc = "idle"
    /\ runs = 1
    /\ first' = calculate_distribution(scores)
    /\ analyzer' = 2
    /\ pos' = 1
    /\ pc' = "idle"
    /\ scores' = GradeDistribution_init
    /\ caller' = "none"
    /\ i' = 0
    /\ q' = 0
    /\ correct_answers' = 0
    /\ draw' = 0
    /\ consumed' = 0
    /\ runs' = 0
    /\ exception' = "none"
    /\ distribution' = <<>>
    /\ UNCHANGED <<config, seeded, rng>>

Next ==
    \/ ReplaceSimulator
    \/ Seed
    \/ RunSimulation
    \/ Analyze
    \/ LoopNext
    \/ LoopExit
    \/ Draw
    \/ DrawRaises
    \/ ReturnScore
    \/ PlotDistribution
    \/ CalculateDistribution
    \/ Reconstruct

Spec == Init /\ [][Next]_vars

\* ------------------------------------------------------------ claims
\* The configuration constraints of the specification.
ValidConfig == num_questions >= 1 /\ num_options >= 2 /\ knowledge_shift >= 0

InvalidConfig ==
    \/ num_questions <= 0
    \/ num_options < 2
    \/ knowledge_shift < 0
    \/ num_participants < 0

\* Sum of the counts of a mapping.
RECURSIVE SumCounts(_, _)
SumCounts(d, keys) ==
    IF keys = {} THEN 0
    ELSE LET k == CHOOSE x \in keys : TRUE
         IN  d[k] + SumCounts(d, keys \ {k})

Total(d) == SumCounts(d, DOMAIN d)

\* run_simulation has returned and no later call is in progress.
RunReturned == runs >= 1 /\ pc \notin {"loop", "sim"}

\* C1: under a valid configuration every stored score, and so every key of the
\* distribution, lies in 0..num_questions.
C1_ScoreInRange ==
    ValidConfig =>
        /\ \A j \in 1..Len(scores) : 0 <= scores[j] /\ scores[j] <= num_questions
        /\ \A k \in DOMAIN calculate_distribution(scores) :
               0 <= k /\ k <= num_questions

\* A finished run under a valid configuration whose shift exceeds the number of
\* questions, so that the clamp decided the score.
C1_Witness ==
    /\ ValidConfig
    /\ RunReturned
    /\ knowledge_shift > num_questions
    /\ Len(scores) >= 1
    /\ scores[1] = num_questions

\* C2: during the first run the counts sum to the participants simulated so
\* far, and once it has returned they sum to num_participants.
C2_CountsSum ==
    /\ runs = 0 => Total(calculate_distribution(scores)) = i
    /\ (runs = 1 /\ RunReturned /\ num_participants >= 0) =>
           Total(calculate_distribution(scores)) = num_participants

\* A finished first run of two participants who got the same score.
C2_Witness ==
    /\ runs = 1
    /\ RunReturned
    /\ num_participants = 2
    /\ Len(scores) = 2
    /\ scores[1] = scores[2]

\* C3: a draw counts as correct exactly when it equals num_options, and the
\* one-question one-option quiz of 5 participants yields {1: 5}.
C3_LastOptionIsCorrect ==
    /\ (pc = "sim" /\ q = 1 /\ ValidConfig) =>
           (correct_answers = 1 <=> draw = num_options)
    /\ (config = <<1, 1, 0, 5>> /\ runs = 1 /\ RunReturned) =>
           calculate_distribution(scores) = (1 :> 5)

\* C4: the score added is min(num_questions, correct_answers + knowledge_shift);
\* under a valid configuration it is at least min(knowledge_shift,
\* num_questions); 20 questions with shift 20 and 10 participants yield {20: 10}.
C4_ClampedShift ==
    /\ (pc = "loop" /\ i >= 1) =>
           LET score == scores[Len(scores)]
               adjusted == correct_answers + knowledge_shift
           IN  /\ adjusted >= num_questions => score = num_questions
               /\ adjusted < num_questions => score = adjusted
               /\ ValidConfig =>
                     (score >= knowledge_shift \/ score >= num_questions)
    /\ (config = <<20, 4, 20, 10>> /\ runs = 1 /\ RunReturned) =>
           calculate_distribution(scores) = (20 :> 10)

\* The finished run of 10 participants over 20 questions with shift 20.
C4_Witness ==
    /\ config = <<20, 4, 20, 10>>
    /\ runs = 1
    /\ RunReturned
    /\ Len(scores) = 10

\* C5: under an invalid configuration the simulation never starts: no draw is
\* consumed and no score is stored.
C5_InvalidConfigRejected ==
    InvalidConfig => (consumed = 0 /\ scores = <<>>)

\* C6: with no participants run_simulation raises nothing, consumes no draw and
\* leaves an empty distribution.
C6_NoParticipants ==
    num_participants = 0 =>
        /\ consumed = 0
        /\ DOMAIN calculate_distribution(scores) = {}
        /\ caller = "run_simulation" => (exception = "none" /\ pc /= "raised")

\* run_simulation has returned on an analyzer of no participants.
C6_Witness ==
    /\ num_participants = 0
    /\ caller = "run_simulation"
    /\ runs = 1
    /\ pc = "idle"

\* The draws participant p takes from the seeded stream, and the scores the
\* configuration and the stream alone determine.
StreamDraws(p) ==
    [j \in 1..num_questions |-> rng[(p - 1) * num_questions + j]]

StreamScores ==
    [p \in 1..num_participants |->
        simulate_participant_score(num_questions, knowledge_shift, StreamDraws(p))]

\* C7: the second analyzer, constructed alike and run on the same seeded
\* stream, ends its run with the distribution the first one ended with; the
\* scores of a run are those the configuration and the stream determine.
C7_Deterministic ==
    /\ (analyzer = 2 /\ runs = 1 /\ RunReturned) =>
           calculate_distribution(scores) = first
    /\ (seeded /\ runs = 1 /\ RunReturned) => scores = StreamScores

\* Both runs finished with two participants whose scores differ.
C7_Witness ==
    /\ analyzer = 2
    /\ runs = 1
    /\ RunReturned
    /\ Len(scores) = 2
    /\ scores[1] /= scores[2]

\* C8: whenever run_simulation has returned, the distribution holds the scores
\* of that run alone: its counts sum to num_participants.
C8_FreshAggregatorPerRun ==
    (RunReturned /\ ValidConfig /\ num_participants >= 0) =>
        Total(calculate_distribution(scores)) = num_participants

\* C9: adding score s raises the count of s by one (to 1 if absent), leaves the
\* other counts alone and keeps every count at least 1; a call of
\* calculate_distribution leaves the stored scores as they were and returns the
\* mapping of those scores.
C9_AddScoreStep ==
    (pc = "sim" /\ pc' = "loop") =>
        LET s == AdjustedScore(num_questions, correct_answers, knowledge_shift)
            before == calculate_distribution(scores)
            after == calculate_distribution(scores')
        IN  /\ DOMAIN after = DOMAIN before \cup {s}
            /\ after[s] = IF s \in DOMAIN before THEN before[s] + 1 ELSE 1
            /\ \A k \in DOMAIN before \ {s} : after[k] = before[k]
            /\ \A k \in DOMAIN after : after[k] >= 1

C9_CalculateStep ==
    (distribution' /= distribution /\ analyzer' = analyzer) =>
        /\ scores' = scores
        /\ distribution' = calculate_distribution(scores)
        /\ calculate_distribution(scores') = distribution'

C9_AddScoreFrame == [][C9_AddScoreStep /\ C9_CalculateStep]_vars

\* A score was added a second time and the mapping then returned counts it twice.
C9_Witness ==
    /\ pc = "idle"
    /\ Len(scores) >= 3
    /\ \E k \in DOMAIN distribution : distribution[k] = 2
    /\ Cardinality(DOMAIN distribution) = 2
    /\ distribution = calculate_distribution(scores)

\* C10: analyze never raises under a valid configuration with
\* num_participants >= 0.
C10_AnalyzeCompletes ==
    (caller = "analyze" /\ ValidConfig /\ num_participants >= 0) =>
        exception = "none"

====
